---- MODULE Spec2Model ----
(***************************************************************************)
(* Model of the smart-home notification worker.                            *)
(*                                                                         *)
(*   worker.js    : processAlertBatch, the batch pipeline over the         *)
(*                  Supabase table alert_log, with the Clerk identity      *)
(*                  lookup and the Resend email client, and the fetch and  *)
(*                  scheduled handlers that start it.                      *)
(*   src/index.js : handleMqttMessage, the single-alert path of the MQTT   *)
(*                  variant over the D1 table alert_log, and the scheduled *)
(*                  handler that keeps the MQTT client for 58 seconds.     *)
(*                                                                         *)
(* A deployment exports one of the two modules; `deployed` says which.     *)
(* Every `await` of the code is one step, so that invocations overlap      *)
(* exactly where the code can be suspended.                                *)
(***************************************************************************)
EXTENDS Naturals, Sequences, FiniteSets

\* ------------------------------------------------------------------ bounds

\* Rows the store may hold in the interleaving specification.
MaxAlerts == 2

\* Invocations of processAlertBatch (they may overlap).
MaxRuns == 2

\* MQTT messages delivered to the subscription (their handlers may overlap).
MaxMsgs == 2

\* Rows the store may hold at the start of the single-invocation
\* specification (more than one batch).
MaxBacklog == 11

\* External calls (store, identity provider, email provider) that may fail
\* in one behaviour.
MaxFaults == 2

\* ------------------------------------------------------- program constants

\* .eq("sent_status", 0) / VALUES (?, ?, ?, ?, 0)
UNSENT == 0

\* .update({ sent_status: 1 }) / SET sent_status = 1
SENT == 1

\* .limit(10)
BatchLimit == 10

\* JS null / undefined.
NULL == "null"

\* JS truthiness of a string-or-null value: null, undefined and "" are falsy.
Truthy(x) == x \notin {NULL, ""}

\* JS `a || b` on string-or-null values.
OrElse(a, b) == IF Truthy(a) THEN a ELSE b

Runs == 1..MaxRuns

Msgs == 1..MaxMsgs

\* ------------------------------------------------------------ environment

\* The identity provider's directory (clerkClient.users.getUser). u1 has two
\* addresses, the second being the primary one; u2 has a first name but no
\* address carrying its primary id. Any other id is answered 404.
ClerkUsers ==
    [u1 |-> [firstName |-> "Alice", primaryEmailAddressId |-> "e2",
             emailAddresses |-> << [id |-> "e1", emailAddress |-> "old@example.com"],
                                   [id |-> "e2", emailAddress |-> "alice@example.com"] >>],
     u2 |-> [firstName |-> "Bob", primaryEmailAddressId |-> "e9",
             emailAddresses |-> << [id |-> "e3", emailAddress |-> "bob@example.com"] >>]]

\* The (home_id, user_id) pairs an upstream insert may carry: every
\* combination of an absent home, h1, h2, h3 with an absent user, u1, u2 and
\* the unknown u9.
AlertKinds ==
    << << "h1", "u1" >>, << NULL, "u1" >>, << "h3", "u9" >>, << "h2", "u1" >>,
       << NULL, NULL >>, << "h3", "u1" >>, << "h1", "u9" >>, << "h2", "u2" >>,
       << "h1", NULL >>, << NULL, "u2" >>, << "h3", NULL >>, << "h1", "u2" >>,
       << "h2", "u9" >>, << NULL, "u9" >>, << "h2", NULL >>, << "h3", "u2" >> >>

\* The inputs upstream will insert: n kinds, taken cyclically from position o on.
Feed(o, n) == [k \in 1..n |-> AlertKinds[((k - 1 + o) % Len(AlertKinds)) + 1]]

\* The user_homes relation: h1 has an override, h2 a row with an empty email,
\* h3 no row at all.
InitUserHomes ==
    << [home_id |-> "h1", user_id |-> "u1", email |-> "family@example.com"],
       [home_id |-> "h2", user_id |-> "u2", email |-> ""] >>

VARIABLES
    deployed,     \* "worker" (worker.js) or "index" (src/index.js)
    alert_log,    \* the alert table, rows in insertion (created_at) order
    upstream,     \* the (home_id, user_id) pairs still to be inserted upstream
    user_homes,   \* the home-user link relation
    run,          \* run[r]: the locals of invocation r of processAlertBatch
    calls,        \* calls[r]: the external calls invocation r has issued, in order
    logAtFetch,   \* logAtFetch[r]: the table as it was when r's select ran
    faults,       \* the external calls that have failed so far
    handler,      \* handler[m]: the locals of handleMqttMessage for message m
    mqttCalls,    \* mqttCalls[m]: the external calls that handler has issued
    job           \* the scheduled invocation of src/index.js and its MQTT client

batchVars == << run, calls, logAtFetch >>

mqttVars == << handler, mqttCalls, job >>

vars == << deployed, alert_log, upstream, user_homes, run, calls, logAtFetch, faults,
           handler, mqttCalls, job >>

\* ---------------------------------------------------------------- helpers

\* user.emailAddresses.find((e) => e.id === primaryId): the position of the
\* first address with that id, from position k on; 0 stands for undefined.
RECURSIVE FindFrom(_, _, _)
FindFrom(s, k, primaryId) ==
    IF k > Len(s) THEN 0
    ELSE IF s[k].id = primaryId THEN k
    ELSE FindFrom(s, k + 1, primaryId)

\* The first n elements of s (LIMIT n).
Limit(s, n) == IF Len(s) <= n THEN s ELSE SubSeq(s, 1, n)

\* The columns the batch selects: id, home_id, user_id, message.
Columns(row) ==
    [id |-> row.id, home_id |-> row.home_id, user_id |-> row.user_id,
     message |-> row.message]

\* Mutant of FetchPending: the order is { ascending: false }.
FetchPendingNewestFirst(log) ==
    LET unsent == SelectSeq(log, LAMBDA row : row.sent_status = UNSENT)
        newestFirst == [k \in 1..Len(unsent) |-> unsent[Len(unsent) + 1 - k]]
        pending == Limit(newestFirst, BatchLimit)
    IN  [k \in 1..Len(pending) |-> Columns(pending[k])]

\* Mutant of FetchPending: the .limit(10) is missing.
FetchPendingNoLimit(log) ==
    LET pending == SelectSeq(log, LAMBDA row : row.sent_status = UNSENT)
    IN  [k \in 1..Len(pending) |-> Columns(pending[k])]

\* Mutant of FetchPending: the .eq("sent_status", 0) filter is missing.
FetchPendingUnfiltered(log) ==
    LET pending == Limit(log, BatchLimit)
    IN  [k \in 1..Len(pending) |-> Columns(pending[k])]

\* select id, home_id, user_id, message from alert_log where sent_status = 0
\* order by created_at asc limit 10 (the rows are kept in created_at order).
FetchPending(log) ==
    LET pending == Limit(SelectSeq(log, LAMBDA row : row.sent_status = UNSENT), BatchLimit)
    IN  [k \in 1..Len(pending) |-> Columns(pending[k])]

\* select email from user_homes where home_id = h limit 1
HomeRows(h) == Limit(SelectSeq(user_homes, LAMBDA row : row.home_id = h), 1)

\* Mutant of MarkSent: the .eq("id", alert.id) filter is missing.
MarkSentWithoutFilter(log, a) ==
    [k \in 1..Len(log) |-> [log[k] EXCEPT !.sent_status = SENT]]

\* update alert_log set sent_status = 1 where id = a
MarkSent(log, a) ==
    [k \in 1..Len(log) |->
        IF log[k].id = a THEN [log[k] EXCEPT !.sent_status = SENT] ELSE log[k]]

\* Mutant of ClerkDetails: the first address is taken, not the primary one.
ClerkDetailsFirstAddress(userId) ==
    LET user == ClerkUsers[userId]
    IN  [firstName |-> user.firstName,
         email |-> IF Len(user.emailAddresses) = 0 THEN NULL
                   ELSE OrElse(user.emailAddresses[1].emailAddress, NULL)]

\* The values getUserDetailsFromClerk returns when getUser resolves.
ClerkDetails(userId) ==
    LET user == ClerkUsers[userId]
        primaryEmail == FindFrom(user.emailAddresses, 1, user.primaryEmailAddressId)
    IN  [firstName |-> user.firstName,
         email |-> IF primaryEmail = 0 THEN NULL
                   ELSE OrElse(user.emailAddresses[primaryEmail].emailAddress, NULL)]

NoDetails == [firstName |-> NULL, email |-> NULL]

\* Mutant of RecipientEmail: the identity email takes precedence.
RecipientEmailIdentityFirst(homeSpecificEmail, details) ==
    OrElse(details.email, homeSpecificEmail)

\* const recipientEmail = homeSpecificEmail || clerkUserDetails.email
RecipientEmail(homeSpecificEmail, details) == OrElse(homeSpecificEmail, details.email)

\* The row an insert creates: a fresh id, sent_status 0, created_at in
\* insert order.
NewRow(id, homeId, userId, deviceId, message) ==
    [id |-> id, home_id |-> homeId, user_id |-> userId, device_id |-> deviceId,
     message |-> message, sent_status |-> UNSENT, created_at |-> id]

\* The variables of env the worker reads.
Credentials == {"SUPABASE_URL", "SUPABASE_KEY", "CLERK_SECRET_KEY", "RESEND_API_KEY"}

\* The bindings a deployment may have: all of them, or all but one.
Envs == {Credentials} \cup {Credentials \ {c} : c \in Credentials}

\* What started an invocation: the handler ("fetch" or "scheduled"), the
\* request's method and JSON body, and the variables env holds.
Request(trigger, method, env, body) ==
    [trigger |-> trigger, method |-> method, env |-> env, body |-> body]

\* processAlertBatch called with three working clients.
NoRequest == Request(NULL, NULL, Credentials, [json |-> FALSE])

IdleRun ==
    [pc |-> "idle", alerts |-> << >>, i |-> 0,
     clerkUserDetails |-> NoDetails, recipientEmail |-> NULL,
     processedCount |-> 0, successfulCount |-> 0, failedCount |-> 0,
     result |-> << >>,
     request |-> NoRequest, response |-> << >>, thrown |-> NULL,
     supabase |-> 0]

\* The object processAlertBatch returns (run[r].result is << >> until then).
BatchResult(p, s, f, err) ==
    << [processed |-> p, successful |-> s, failed |-> f, error |-> err] >>

Call(op, alert, arg, ok) == [op |-> op, alert |-> alert, arg |-> arg, ok |-> ok]

\* An external call resolves (ok) or fails; failures are drawn from a budget.
Outcome(ok) ==
    /\ ~ok => faults < MaxFaults
    /\ faults' = IF ok THEN faults ELSE faults + 1

\* The message buffers the broker may deliver: text that is not JSON, or a
\* JSON object in which any of the three fields may be missing.
BadJson == [json |-> FALSE]

Payload(homeId, deviceId, message) ==
    [json |-> TRUE, home_id |-> homeId, device_id |-> deviceId, message |-> message]

Payloads ==
    {BadJson} \cup
    {Payload(h, d, t) : h \in {NULL, "h1", "h2", "h3"}, d \in {NULL, "d1"},
                        t \in {NULL, "leak detected"}}

IdleHandler == [pc |-> "idle", payload |-> BadJson, alertResult |-> 0, email |-> NULL]

\* The scheduled invocation of src/index.js before the cron fires: no
\* client yet, no error event seen, client.end() never called.
IdleJob == [pc |-> "idle", subscribed |-> FALSE, ended |-> FALSE, error |-> NULL,
            endCalls |-> 0]

\* ------------------------------------------------------------------- Init

Init ==
    /\ \/ /\ deployed = "worker"
          /\ \E o \in 0..(Len(AlertKinds) - 1) : upstream = Feed(o, MaxAlerts)
       \/ /\ deployed = "index"
          /\ upstream = << >>
    /\ alert_log = << >>
    /\ user_homes = InitUserHomes
    /\ run = [r \in Runs |-> IdleRun]
    /\ calls = [r \in Runs |-> << >>]
    /\ logAtFetch = [r \in Runs |-> << >>]
    /\ faults = 0
    /\ handler = [m \in Msgs |-> IdleHandler]
    /\ mqttCalls = [m \in Msgs |-> << >>]
    /\ job = IdleJob

\* ---------------------------------------------------- the batch pipeline

\* An upstream writer inserts one alert row, UNSENT, with the next id.
InsertAlert ==
    /\ deployed = "worker"
    /\ upstream # << >>
    /\ alert_log' = Append(alert_log,
            NewRow(Len(alert_log) + 1, Head(upstream)[1], Head(upstream)[2],
                   "d1", "leak detected"))
    /\ upstream' = Tail(upstream)
    /\ UNCHANGED << deployed, user_homes, run, calls, logAtFetch, faults, mqttVars >>

\* fetch (POST) or scheduled constructs its clients (run[r].supabase names
\* the store client: a new one, numbered like the invocation; 0 is none) and
\* calls processAlertBatch: the counters are zeroed and the select on
\* alert_log is issued. Invocations are numbered in the order in which they
\* start.
Invoke(r) ==
    /\ deployed = "worker"
    /\ run[r].pc = "idle"
    /\ \A q \in Runs : q < r => run[q].pc # "idle"
    /\ run' = [run EXCEPT ![r].pc = "fetch", ![r].supabase = r]
    /\ UNCHANGED << deployed, alert_log, upstream, user_homes, calls, logAtFetch, faults, mqttVars >>

\* The scheduler fires again after invocation r has returned: scheduled
\* constructs new clients and calls processAlertBatch anew, with fresh
\* locals and no memory of the previous invocation.
Reinvoke(r) ==
    /\ deployed = "worker"
    /\ run[r].pc = "done"
    /\ run' = [run EXCEPT ![r] = [IdleRun EXCEPT !.pc = "fetch", !.supabase = r]]
    /\ calls' = [calls EXCEPT ![r] = << >>]
    /\ logAtFetch' = [logAtFetch EXCEPT ![r] = << >>]
    /\ UNCHANGED << deployed, alert_log, upstream, user_homes, faults, mqttVars >>

\* A plain-text Response.
TextResponse(status, text) == << [status |-> status, text |-> text] >>

\* A Response whose body is JSON.stringify(json).
JsonResponse(status, json) == << [status |-> status, json |-> json] >>

\* The 500 of a missing credential.
ConfigError(error) == JsonResponse(500, [success |-> FALSE, error |-> error])

\* The bodies a request may carry, with their Content-Type: JSON with the
\* three fields, JSON with one of them missing, or plain text.
PostBodies ==
    {[json |-> TRUE, contentType |-> "application/json",
      home_id |-> "h1", device_id |-> "d1", message |-> "leak detected"],
     [json |-> TRUE, contentType |-> "application/json",
      home_id |-> "h1", device_id |-> "d1", message |-> NULL],
     [json |-> TRUE, contentType |-> "application/json",
      home_id |-> "h1", device_id |-> NULL, message |-> "leak detected"],
     [json |-> FALSE, contentType |-> "text/plain"]}

\* The fetch handler up to its first await: GET is the health check, POST
\* checks the four credentials in turn and then calls processAlertBatch
\* (the body is never read), any other method is refused.
FetchHandler(r, method, env, body) ==
    /\ deployed = "worker"
    /\ run[r].pc = "idle"
    /\ \A q \in Runs : q < r => run[q].pc # "idle"
    /\ LET me == [run[r] EXCEPT !.request = Request("fetch", method, env, body)]
           respond(response) == [me EXCEPT !.pc = "done", !.response = response]
       IN  run' = [run EXCEPT ![r] =
            IF method = "GET" THEN respond(TextResponse(200, "Notification Worker Running"))
            ELSE IF method # "POST" THEN respond(TextResponse(405, "Method Not Allowed"))
            ELSE IF "SUPABASE_URL" \notin env THEN respond(ConfigError("Supabase URL missing."))
            ELSE IF "SUPABASE_KEY" \notin env THEN respond(ConfigError("Supabase key missing."))
            ELSE IF "CLERK_SECRET_KEY" \notin env
                 THEN respond(ConfigError("Clerk secret key missing."))
            ELSE IF "RESEND_API_KEY" \notin env
                 THEN respond(ConfigError("Resend API key missing."))
            ELSE [me EXCEPT !.pc = "fetch", !.supabase = r]]
    /\ UNCHANGED << deployed, alert_log, upstream, user_homes, calls, logAtFetch, faults, mqttVars >>

\* The scheduled handler: the three clients are constructed from env without
\* a check, processAlertBatch is started under ctx.waitUntil and the handler
\* returns at once. createClient throws without a url or a key and the
\* Resend constructor throws without an API key; createClerkClient does not
\* look at its secret key before the first request.
ScheduledEvent(r, env) ==
    /\ deployed = "worker"
    /\ run[r].pc = "idle"
    /\ \A q \in Runs : q < r => run[q].pc # "idle"
    /\ LET me == [run[r] EXCEPT !.request = Request("scheduled", NULL, env, [json |-> FALSE])]
           throw(error) == [me EXCEPT !.pc = "done", !.thrown = error]
       IN  run' = [run EXCEPT ![r] =
            IF "SUPABASE_URL" \notin env THEN throw("supabaseUrl is required.")
            ELSE IF "SUPABASE_KEY" \notin env THEN throw("supabaseKey is required.")
            ELSE IF "RESEND_API_KEY" \notin env
                 THEN [throw("Missing API key.") EXCEPT !.supabase = r]
            ELSE [me EXCEPT !.pc = "fetch", !.supabase = r,
                            !.response = TextResponse(200, "Scheduled batch triggered")]]
    /\ UNCHANGED << deployed, alert_log, upstream, user_homes, calls, logAtFetch, faults, mqttVars >>

\* The Response an invocation has produced so far (<< >> for none): the one
\* its handler returned early, or the 200 the fetch handler builds from the
\* result of processAlertBatch.
HttpResponse(r) ==
    IF run[r].response # << >> THEN run[r].response
    ELSE IF run[r].request.trigger = "fetch" /\ run[r].result # << >>
    THEN JsonResponse(200, [success |-> TRUE,
                            processed |-> run[r].result[1].processed,
                            successful |-> run[r].result[1].successful,
                            failed |-> run[r].result[1].failed,
                            error |-> run[r].result[1].error])
    ELSE << >>

\* The end of one loop iteration with the counters s and f: the next alert,
\* or the return after the loop.
NextAlert(r, s, f) ==
    LET me == run[r] IN
    IF me.i < Len(me.alerts)
    THEN [me EXCEPT !.pc = "getUser", !.i = me.i + 1,
                    !.clerkUserDetails = NoDetails, !.recipientEmail = NULL,
                    !.successfulCount = s, !.failedCount = f]
    ELSE [me EXCEPT !.pc = "done",
                    !.clerkUserDetails = NoDetails, !.recipientEmail = NULL,
                    !.successfulCount = s, !.failedCount = f,
                    !.result = BatchResult(me.processedCount, s, f, NULL)]

\* Mutant of Resolve: an alert without a recipient ends the loop (break
\* instead of continue).
ResolveBreakingOnMissing(r, details, homeSpecificEmail) ==
    LET me == run[r]
        recipientEmail == RecipientEmail(homeSpecificEmail, details)
    IN  IF ~Truthy(recipientEmail)
        THEN [me EXCEPT !.pc = "done",
                        !.clerkUserDetails = NoDetails, !.recipientEmail = NULL,
                        !.failedCount = me.failedCount + 1,
                        !.result = BatchResult(me.processedCount, me.successfulCount,
                                               me.failedCount + 1, NULL)]
        ELSE [me EXCEPT !.pc = "send", !.clerkUserDetails = details,
                        !.recipientEmail = recipientEmail]

\* Mutant of Resolve: the skip of an alert without a recipient lacks the
\* failedCount++.
ResolveSkippingUncounted(r, details, homeSpecificEmail) ==
    LET me == run[r]
        recipientEmail == RecipientEmail(homeSpecificEmail, details)
    IN  IF ~Truthy(recipientEmail)
        THEN NextAlert(r, me.successfulCount, me.failedCount)
        ELSE [me EXCEPT !.pc = "send", !.clerkUserDetails = details,
                        !.recipientEmail = recipientEmail]

\* Mutant of Resolve: the `if (!recipientEmail)` skip is missing.
ResolveWithoutCheck(r, details, homeSpecificEmail) ==
    [run[r] EXCEPT !.pc = "send", !.clerkUserDetails = details,
                   !.recipientEmail = RecipientEmail(homeSpecificEmail, details)]

\* The synchronous code between the lookups and the send: the recipient is
\* chosen; without one the alert is counted failed and the loop continues.
Resolve(r, details, homeSpecificEmail) ==
    LET me == run[r]
        recipientEmail == RecipientEmail(homeSpecificEmail, details)
    IN  IF ~Truthy(recipientEmail)
        THEN NextAlert(r, me.successfulCount, me.failedCount + 1)
        ELSE [me EXCEPT !.pc = "send", !.clerkUserDetails = details,
                        !.recipientEmail = recipientEmail]

\* Mutant of Fetch: an empty result is thrown like a fetch error.
FetchEmptyAsError(r) ==
    /\ run[r].pc = "fetch"
    /\ \E ok \in BOOLEAN :
        LET alerts == FetchPending(alert_log)
            me == run[r]
        IN  /\ Outcome(ok)
            /\ calls' = [calls EXCEPT ![r] = Append(@, Call("select_alerts", NULL, NULL, ok))]
            /\ logAtFetch' = [logAtFetch EXCEPT ![r] = alert_log]
            /\ run' = [run EXCEPT ![r] =
                    IF ~ok \/ Len(alerts) = 0
                    THEN [me EXCEPT !.pc = "done",
                            !.result = BatchResult(me.processedCount, me.successfulCount,
                                me.failedCount + (me.processedCount - me.successfulCount
                                                    - me.failedCount),
                                "fetch failed")]
                    ELSE IF Len(alerts) = 0
                    THEN [me EXCEPT !.pc = "done", !.result = BatchResult(0, 0, 0, NULL)]
                    ELSE [me EXCEPT !.pc = "getUser", !.alerts = alerts, !.i = 1,
                                    !.processedCount = Len(alerts)]]
    /\ UNCHANGED << deployed, alert_log, upstream, user_homes, mqttVars >>

\* Mutant of Fetch: `if (fetchError) throw fetchError` is missing, so a failed
\* select (data null) takes the early return of an empty batch.
FetchErrorIgnored(r) ==
    /\ run[r].pc = "fetch"
    /\ \E ok \in BOOLEAN :
        LET alerts == IF ok THEN FetchPending(alert_log) ELSE << >>
            me == run[r]
        IN  /\ Outcome(ok)
            /\ calls' = [calls EXCEPT ![r] = Append(@, Call("select_alerts", NULL, NULL, ok))]
            /\ logAtFetch' = [logAtFetch EXCEPT ![r] = alert_log]
            /\ run' = [run EXCEPT ![r] =
                    IF Len(alerts) = 0
                    THEN [me EXCEPT !.pc = "done", !.result = BatchResult(0, 0, 0, NULL)]
                    ELSE [me EXCEPT !.pc = "getUser", !.alerts = alerts, !.i = 1,
                                    !.processedCount = Len(alerts)]]
    /\ UNCHANGED << deployed, alert_log, upstream, user_homes, mqttVars >>

\* The select on alert_log resolves: with an error (the batch catch returns),
\* with no rows (early return), or with the batch.
Fetch(r) ==
    /\ run[r].pc = "fetch"
    /\ \E ok \in BOOLEAN :
        LET alerts == FetchPending(alert_log)
            me == run[r]
        IN  /\ Outcome(ok)
            /\ calls' = [calls EXCEPT ![r] = Append(@, Call("select_alerts", NULL, NULL, ok))]
            /\ logAtFetch' = [logAtFetch EXCEPT ![r] = alert_log]
            /\ run' = [run EXCEPT ![r] =
                    IF ~ok
                    THEN [me EXCEPT !.pc = "done",
                            !.result = BatchResult(me.processedCount, me.successfulCount,
                                me.failedCount + (me.processedCount - me.successfulCount
                                                    - me.failedCount),
                                "fetch failed")]
                    ELSE IF Len(alerts) = 0
                    THEN [me EXCEPT !.pc = "done", !.result = BatchResult(0, 0, 0, NULL)]
                    ELSE [me EXCEPT !.pc = "getUser", !.alerts = alerts, !.i = 1,
                                    !.processedCount = Len(alerts)]]
    /\ UNCHANGED << deployed, alert_log, upstream, user_homes, mqttVars >>

\* Mutant of GetUser: getUserDetailsFromClerk has no try/catch, a rejected
\* getUser reaches the per-alert catch.
GetUserPropagating(r) ==
    /\ run[r].pc = "getUser"
    /\ LET me == run[r]
           alert == me.alerts[me.i]
       IN  \E ok \in BOOLEAN :
            /\ (alert.user_id = NULL) => ok
            /\ (alert.user_id \notin DOMAIN ClerkUsers /\ alert.user_id # NULL) => ~ok
            /\ (alert.user_id # NULL /\ "CLERK_SECRET_KEY" \notin me.request.env) => ~ok
            /\ IF alert.user_id \in DOMAIN ClerkUsers /\ "CLERK_SECRET_KEY" \in me.request.env
               THEN Outcome(ok)
               ELSE faults' = faults
            /\ LET details == IF alert.user_id # NULL /\ ok
                              THEN ClerkDetails(alert.user_id) ELSE NoDetails
               IN  /\ calls' = [calls EXCEPT ![r] =
                        IF alert.user_id = NULL THEN @
                        ELSE Append(@, Call("getUser", alert.id, alert.user_id, ok))]
                   /\ run' = [run EXCEPT ![r] =
                        IF ~ok THEN NextAlert(r, me.successfulCount, me.failedCount + 1)
                        ELSE IF Truthy(alert.home_id)
                        THEN [me EXCEPT !.pc = "homeEmail", !.clerkUserDetails = details]
                        ELSE Resolve(r, details, NULL)]
    /\ UNCHANGED << deployed, alert_log, upstream, user_homes, logAtFetch, mqttVars >>

\* getUserDetailsFromClerk: no call without a userId; otherwise getUser
\* resolves with the directory entry, or throws (404 for an unknown id, a
\* provider error, or a client built without its secret key) and the catch
\* returns nulls. Without a homeId the code
\* runs on to the recipient choice.
GetUser(r) ==
    /\ run[r].pc = "getUser"
    /\ LET me == run[r]
           alert == me.alerts[me.i]
       IN  \E ok \in BOOLEAN :
            /\ (alert.user_id = NULL) => ok
            /\ (alert.user_id \notin DOMAIN ClerkUsers /\ alert.user_id # NULL) => ~ok
            /\ (alert.user_id # NULL /\ "CLERK_SECRET_KEY" \notin me.request.env) => ~ok
            /\ IF alert.user_id \in DOMAIN ClerkUsers /\ "CLERK_SECRET_KEY" \in me.request.env
               THEN Outcome(ok)
               ELSE faults' = faults
            /\ LET details == IF alert.user_id # NULL /\ ok
                              THEN ClerkDetails(alert.user_id) ELSE NoDetails
               IN  /\ calls' = [calls EXCEPT ![r] =
                        IF alert.user_id = NULL THEN @
                        ELSE Append(@, Call("getUser", alert.id, alert.user_id, ok))]
                   /\ run' = [run EXCEPT ![r] =
                        IF Truthy(alert.home_id)
                        THEN [me EXCEPT !.pc = "homeEmail", !.clerkUserDetails = details]
                        ELSE Resolve(r, details, NULL)]
    /\ UNCHANGED << deployed, alert_log, upstream, user_homes, logAtFetch, mqttVars >>

\* Mutant of HomeEmail: `if (homeError) throw homeError`, into the per-alert
\* catch.
HomeEmailThrowing(r) ==
    /\ run[r].pc = "homeEmail"
    /\ LET me == run[r]
           alert == me.alerts[me.i]
       IN  \E ok \in BOOLEAN :
            LET homeRows == IF ok THEN HomeRows(alert.home_id) ELSE << >>
                homeSpecificEmail ==
                    IF Len(homeRows) = 0 THEN NULL ELSE OrElse(homeRows[1].email, NULL)
            IN  /\ Outcome(ok)
                /\ calls' = [calls EXCEPT ![r] =
                        Append(@, Call("select_home", alert.id, alert.home_id, ok))]
                /\ run' = [run EXCEPT ![r] =
                        IF ok THEN Resolve(r, me.clerkUserDetails, homeSpecificEmail)
                        ELSE NextAlert(r, me.successfulCount, me.failedCount + 1)]
    /\ UNCHANGED << deployed, alert_log, upstream, user_homes, logAtFetch, mqttVars >>

\* The select on user_homes resolves: with rows, or with an error that is
\* only logged (data is then null).
HomeEmail(r) ==
    /\ run[r].pc = "homeEmail"
    /\ LET me == run[r]
           alert == me.alerts[me.i]
       IN  \E ok \in BOOLEAN :
            LET homeRows == IF ok THEN HomeRows(alert.home_id) ELSE << >>
                homeSpecificEmail ==
                    IF Len(homeRows) = 0 THEN NULL ELSE OrElse(homeRows[1].email, NULL)
            IN  /\ Outcome(ok)
                /\ calls' = [calls EXCEPT ![r] =
                        Append(@, Call("select_home", alert.id, alert.home_id, ok))]
                /\ run' = [run EXCEPT ![r] = Resolve(r, me.clerkUserDetails, homeSpecificEmail)]
    /\ UNCHANGED << deployed, alert_log, upstream, user_homes, logAtFetch, mqttVars >>

\* Mutant of Send: a rejected send is retried once before the alert is
\* counted failed.
SendRetryingOnce(r) ==
    /\ run[r].pc = "send"
    /\ LET me == run[r]
           alert == me.alerts[me.i]
           retried == \E k \in 1..Len(calls[r]) :
                            calls[r][k].op = "send" /\ calls[r][k].alert = alert.id
       IN  \E ok \in BOOLEAN :
            /\ Outcome(ok)
            /\ calls' = [calls EXCEPT ![r] =
                    Append(@, Call("send", alert.id, me.recipientEmail, ok))]
            /\ run' = [run EXCEPT ![r] =
                    IF ok THEN [me EXCEPT !.pc = "update"]
                    ELSE IF ~retried THEN me
                    ELSE NextAlert(r, me.successfulCount, me.failedCount + 1)]
    /\ UNCHANGED << deployed, alert_log, upstream, user_homes, logAtFetch, mqttVars >>

\* Mutant of Send: the email is sent a second time, both sends recorded.
SendDuplicated(r) ==
    /\ run[r].pc = "send"
    /\ LET me == run[r]
           alert == me.alerts[me.i]
       IN  \E ok \in BOOLEAN :
            /\ Outcome(ok)
            /\ calls' = [calls EXCEPT ![r] =
                    Append(Append(@, Call("send", alert.id, me.recipientEmail, ok)),
                           Call("send", alert.id, me.recipientEmail, ok))]
            /\ run' = [run EXCEPT ![r] =
                    IF ok THEN [me EXCEPT !.pc = "update"]
                    ELSE NextAlert(r, me.successfulCount, me.failedCount + 1)]
    /\ UNCHANGED << deployed, alert_log, upstream, user_homes, logAtFetch, mqttVars >>

\* Mutant of Send: a rejected send is not caught, the update is issued anyway.
SendIgnoringFailure(r) ==
    /\ run[r].pc = "send"
    /\ LET me == run[r]
           alert == me.alerts[me.i]
       IN  \E ok \in BOOLEAN :
            /\ Outcome(ok)
            /\ calls' = [calls EXCEPT ![r] =
                    Append(@, Call("send", alert.id, me.recipientEmail, ok))]
            /\ run' = [run EXCEPT ![r] = [me EXCEPT !.pc = "update"]]
    /\ UNCHANGED << deployed, alert_log, upstream, user_homes, logAtFetch, mqttVars >>

\* Mutant of Send: a rejected send reaches the batch catch and ends the batch.
SendAbortingBatch(r) ==
    /\ run[r].pc = "send"
    /\ LET me == run[r]
           alert == me.alerts[me.i]
       IN  \E ok \in BOOLEAN :
            /\ Outcome(ok)
            /\ calls' = [calls EXCEPT ![r] =
                    Append(@, Call("send", alert.id, me.recipientEmail, ok))]
            /\ run' = [run EXCEPT ![r] =
                    IF ok THEN [me EXCEPT !.pc = "update"]
                    ELSE [me EXCEPT !.pc = "done",
                            !.result = BatchResult(me.processedCount, me.successfulCount,
                                me.processedCount - me.successfulCount, "send failed")]]
    /\ UNCHANGED << deployed, alert_log, upstream, user_homes, logAtFetch, mqttVars >>

\* Mutant of Send: the per-alert catch does not count the failure.
SendNotCounting(r) ==
    /\ run[r].pc = "send"
    /\ LET me == run[r]
           alert == me.alerts[me.i]
       IN  \E ok \in BOOLEAN :
            /\ Outcome(ok)
            /\ calls' = [calls EXCEPT ![r] =
                    Append(@, Call("send", alert.id, me.recipientEmail, ok))]
            /\ run' = [run EXCEPT ![r] =
                    IF ok THEN [me EXCEPT !.pc = "update"]
                    ELSE NextAlert(r, me.successfulCount, me.failedCount)]
    /\ UNCHANGED << deployed, alert_log, upstream, user_homes, logAtFetch, mqttVars >>

\* resend.emails.send resolves (the update is issued next) or throws (the
\* per-alert catch counts the alert failed).
Send(r) ==
    /\ run[r].pc = "send"
    /\ LET me == run[r]
           alert == me.alerts[me.i]
       IN  \E ok \in BOOLEAN :
            /\ Outcome(ok)
            /\ calls' = [calls EXCEPT ![r] =
                    Append(@, Call("send", alert.id, me.recipientEmail, ok))]
            /\ run' = [run EXCEPT ![r] =
                    IF ok THEN [me EXCEPT !.pc = "update"]
                    ELSE NextAlert(r, me.successfulCount, me.failedCount + 1)]
    /\ UNCHANGED << deployed, alert_log, upstream, user_homes, logAtFetch, mqttVars >>

\* Mutant of Update: successfulCount++ is placed before the updateError check.
UpdateCountingEarly(r) ==
    /\ run[r].pc = "update"
    /\ LET me == run[r]
           alert == me.alerts[me.i]
       IN  \E ok \in BOOLEAN :
            /\ Outcome(ok)
            /\ calls' = [calls EXCEPT ![r] = Append(@, Call("update", alert.id, SENT, ok))]
            /\ alert_log' = IF ok THEN MarkSent(alert_log, alert.id) ELSE alert_log
            /\ run' = [run EXCEPT ![r] =
                    IF ok THEN NextAlert(r, me.successfulCount + 1, me.failedCount)
                    ELSE NextAlert(r, me.successfulCount + 1, me.failedCount + 1)]
    /\ UNCHANGED << deployed, upstream, user_homes, logAtFetch, mqttVars >>

\* Mutant of Update: the catch of a failed update writes sent_status 0 back.
UpdateRevertingOnError(r) ==
    /\ run[r].pc = "update"
    /\ LET me == run[r]
           alert == me.alerts[me.i]
       IN  \E ok \in BOOLEAN :
            /\ Outcome(ok)
            /\ calls' = [calls EXCEPT ![r] = Append(@, Call("update", alert.id, SENT, ok))]
            /\ alert_log' = IF ok THEN MarkSent(alert_log, alert.id)
                            ELSE [k \in 1..Len(alert_log) |->
                                    IF alert_log[k].id = alert.id
                                    THEN [alert_log[k] EXCEPT !.sent_status = UNSENT]
                                    ELSE alert_log[k]]
            /\ run' = [run EXCEPT ![r] =
                    IF ok THEN NextAlert(r, me.successfulCount + 1, me.failedCount)
                    ELSE NextAlert(r, me.successfulCount, me.failedCount + 1)]
    /\ UNCHANGED << deployed, upstream, user_homes, logAtFetch, mqttVars >>

\* Mutant of Update: updateError is thrown outside the per-alert try, so it
\* reaches the batch catch and ends the batch.
UpdateAbortingBatch(r) ==
    /\ run[r].pc = "update"
    /\ LET me == run[r]
           alert == me.alerts[me.i]
       IN  \E ok \in BOOLEAN :
            /\ Outcome(ok)
            /\ calls' = [calls EXCEPT ![r] = Append(@, Call("update", alert.id, SENT, ok))]
            /\ alert_log' = IF ok THEN MarkSent(alert_log, alert.id) ELSE alert_log
            /\ run' = [run EXCEPT ![r] =
                    IF ok THEN NextAlert(r, me.successfulCount + 1, me.failedCount)
                    ELSE [me EXCEPT !.pc = "done",
                            !.result = BatchResult(me.processedCount, me.successfulCount,
                                me.failedCount + (me.processedCount - me.successfulCount
                                                    - me.failedCount),
                                "update failed")]]
    /\ UNCHANGED << deployed, upstream, user_homes, logAtFetch, mqttVars >>

\* The update of sent_status resolves: the row is marked and the alert
\* counted successful, or updateError is thrown into the per-alert catch.
Update(r) ==
    /\ run[r].pc = "update"
    /\ LET me == run[r]
           alert == me.alerts[me.i]
       IN  \E ok \in BOOLEAN :
            /\ Outcome(ok)
            /\ calls' = [calls EXCEPT ![r] = Append(@, Call("update", alert.id, SENT, ok))]
            /\ alert_log' = IF ok THEN MarkSent(alert_log, alert.id) ELSE alert_log
            /\ run' = [run EXCEPT ![r] =
                    IF ok THEN NextAlert(r, me.successfulCount + 1, me.failedCount)
                    ELSE NextAlert(r, me.successfulCount, me.failedCount + 1)]
    /\ UNCHANGED << deployed, upstream, user_homes, logAtFetch, mqttVars >>

\* ------------------------------------------- the MQTT single-alert path

\* The catch of handleMqttMessage: the error is logged, nothing is rethrown.
Caught(m) == [handler[m] EXCEPT !.pc = "done"]

\* scheduled of src/index.js up to its await: connect() returns the client,
\* the three handlers are registered and the 58 s timer is started.
MqttScheduled ==
    /\ deployed = "index"
    /\ job.pc = "idle"
    /\ job' = [job EXCEPT !.pc = "waiting"]
    /\ UNCHANGED << deployed, alert_log, upstream, user_homes, batchVars, faults, handler,
                    mqttCalls >>

\* client.on("connect"): the client subscribes to /notification.
MqttConnect ==
    /\ job.pc = "waiting"
    /\ ~job.ended
    /\ ~job.subscribed
    /\ job' = [job EXCEPT !.subscribed = TRUE]
    /\ UNCHANGED << deployed, alert_log, upstream, user_homes, batchVars, faults, handler,
                    mqttCalls >>

\* client.on("error"): the error is logged and client.end() is called; the
\* await on the timer goes on.
MqttError ==
    /\ job.pc = "waiting"
    /\ ~job.ended
    /\ Outcome(FALSE)
    /\ job' = [job EXCEPT !.ended = TRUE, !.error = "Test MQTT error",
                          !.endCalls = job.endCalls + 1]
    /\ UNCHANGED << deployed, alert_log, upstream, user_homes, batchVars, handler, mqttCalls >>

\* The 58 s timer fires: client.end() is called and scheduled resolves.
MqttTimer ==
    /\ job.pc = "waiting"
    /\ job' = [job EXCEPT !.pc = "resolved", !.ended = TRUE,
                          !.endCalls = job.endCalls + 1]
    /\ UNCHANGED << deployed, alert_log, upstream, user_homes, batchVars, faults, handler,
                    mqttCalls >>

\* Mutant of MqttMessage: handleMqttMessage has no try/catch around the
\* parse and the validation, so a bad payload rejects its promise.
MqttMessageUncaught(m, payload) ==
    /\ deployed = "index"
    /\ job.subscribed /\ ~job.ended
    /\ handler[m].pc = "idle"
    /\ \A q \in Msgs : q < m => handler[q].pc # "idle"
    /\ handler' = [handler EXCEPT ![m] =
            IF payload.json /\ Truthy(payload.home_id) /\ Truthy(payload.device_id)
                /\ Truthy(payload.message)
            THEN [handler[m] EXCEPT !.pc = "insert", !.payload = payload]
            ELSE [handler[m] EXCEPT !.pc = "rejected", !.payload = payload]]
    /\ UNCHANGED << deployed, alert_log, upstream, user_homes, batchVars, faults, mqttCalls,
                    job >>

\* client.on("message"), delivered while the client is subscribed and not
\* ended: handleMqttMessage parses and validates the payload; a valid one
\* issues the insert. Messages are numbered in arrival order.
MqttMessage(m, payload) ==
    /\ deployed = "index"
    /\ job.subscribed /\ ~job.ended
    /\ handler[m].pc = "idle"
    /\ \A q \in Msgs : q < m => handler[q].pc # "idle"
    /\ handler' = [handler EXCEPT ![m] =
            IF payload.json /\ Truthy(payload.home_id) /\ Truthy(payload.device_id)
                /\ Truthy(payload.message)
            THEN [handler[m] EXCEPT !.pc = "insert", !.payload = payload]
            ELSE [Caught(m) EXCEPT !.payload = payload]]
    /\ UNCHANGED << deployed, alert_log, upstream, user_homes, batchVars, faults, mqttCalls,
                    job >>

\* The insert resolves with the new row's id (the select on user_homes is
\* issued next), or fails.
MqttInsert(m) ==
    /\ handler[m].pc = "insert"
    /\ LET me == handler[m]
           id == Len(alert_log) + 1
       IN  \E ok \in BOOLEAN :
            /\ Outcome(ok)
            /\ mqttCalls' = [mqttCalls EXCEPT ![m] =
                    Append(@, Call("insert", IF ok THEN id ELSE 0, me.payload.home_id, ok))]
            /\ alert_log' = IF ok
                    THEN Append(alert_log,
                            NewRow(id, me.payload.home_id, "system", me.payload.device_id,
                                   me.payload.message))
                    ELSE alert_log
            /\ handler' = [handler EXCEPT ![m] =
                    IF ok THEN [me EXCEPT !.pc = "getUserEmail", !.alertResult = id]
                    ELSE Caught(m)]
    /\ UNCHANGED << deployed, upstream, user_homes, batchVars, job >>

\* The select on user_homes resolves: without a row or with an empty email
\* the handler throws; otherwise the email is sent next.
MqttGetUserEmail(m) ==
    /\ handler[m].pc = "getUserEmail"
    /\ LET me == handler[m]
       IN  \E ok \in BOOLEAN :
            LET userResult == IF ok THEN HomeRows(me.payload.home_id) ELSE << >>
            IN  /\ Outcome(ok)
                /\ mqttCalls' = [mqttCalls EXCEPT ![m] =
                        Append(@, Call("select_home", me.alertResult, me.payload.home_id, ok))]
                /\ handler' = [handler EXCEPT ![m] =
                        IF Len(userResult) > 0 /\ Truthy(userResult[1].email)
                        THEN [me EXCEPT !.pc = "send", !.email = userResult[1].email]
                        ELSE Caught(m)]
    /\ UNCHANGED << deployed, alert_log, upstream, user_homes, batchVars, job >>

\* resend.emails.send resolves (the update is issued next) or throws.
MqttSend(m) ==
    /\ handler[m].pc = "send"
    /\ LET me == handler[m]
       IN  \E ok \in BOOLEAN :
            /\ Outcome(ok)
            /\ mqttCalls' = [mqttCalls EXCEPT ![m] =
                    Append(@, Call("send", me.alertResult, me.email, ok))]
            /\ handler' = [handler EXCEPT ![m] =
                    IF ok THEN [me EXCEPT !.pc = "update"] ELSE Caught(m)]
    /\ UNCHANGED << deployed, alert_log, upstream, user_homes, batchVars, job >>

\* Mutant of MqttUpdate: the id to update is kept in a variable shared by
\* the handlers, which holds the id of the latest insert.
MqttUpdateLatestInsert(m) ==
    /\ handler[m].pc = "update"
    /\ LET me == handler[m]
           latest == Len(alert_log)
       IN  \E ok \in BOOLEAN :
            /\ Outcome(ok)
            /\ mqttCalls' = [mqttCalls EXCEPT ![m] =
                    Append(@, Call("update", latest, SENT, ok))]
            /\ alert_log' = IF ok THEN MarkSent(alert_log, latest) ELSE alert_log
            /\ handler' = [handler EXCEPT ![m] = Caught(m)]
    /\ UNCHANGED << deployed, upstream, user_homes, batchVars, job >>

\* The update of sent_status resolves or fails; either way the handler ends.
MqttUpdate(m) ==
    /\ handler[m].pc = "update"
    /\ LET me == handler[m]
       IN  \E ok \in BOOLEAN :
            /\ Outcome(ok)
            /\ mqttCalls' = [mqttCalls EXCEPT ![m] =
                    Append(@, Call("update", me.alertResult, SENT, ok))]
            /\ alert_log' = IF ok THEN MarkSent(alert_log, me.alertResult) ELSE alert_log
            /\ handler' = [handler EXCEPT ![m] = Caught(m)]
    /\ UNCHANGED << deployed, upstream, user_homes, batchVars, job >>

\* The value the promise of handleMqttMessage resolves with (<< >> for
\* undefined): the function has no return statement.
HandlerResult(m) == << >>

Next ==
    \/ InsertAlert
    \/ \E r \in Runs : Invoke(r)
    \/ \E r \in Runs : Fetch(r)
    \/ \E r \in Runs : GetUser(r)
    \/ \E r \in Runs : HomeEmail(r)
    \/ \E r \in Runs : Send(r)
    \/ \E r \in Runs : Update(r)
    \/ MqttScheduled
    \/ MqttConnect
    \/ MqttError
    \/ MqttTimer
    \/ \E m \in Msgs, payload \in Payloads : MqttMessage(m, payload)
    \/ \E m \in Msgs : MqttInsert(m)
    \/ \E m \in Msgs : MqttGetUserEmail(m)
    \/ \E m \in Msgs : MqttSend(m)
    \/ \E m \in Msgs : MqttUpdate(m)

Spec == Init /\ [][Next]_vars

\* ------------------------------------- the MQTT deployment on its own

InitMqtt ==
    /\ deployed = "index"
    /\ alert_log = << >>
    /\ upstream = << >>
    /\ user_homes = InitUserHomes
    /\ run = [r \in Runs |-> IdleRun]
    /\ calls = [r \in Runs |-> << >>]
    /\ logAtFetch = [r \in Runs |-> << >>]
    /\ faults = 0
    /\ handler = [m \in Msgs |-> IdleHandler]
    /\ mqttCalls = [m \in Msgs |-> << >>]
    /\ job = IdleJob

NextMqtt ==
    \/ MqttScheduled
    \/ MqttConnect
    \/ MqttError
    \/ MqttTimer
    \/ \E m \in Msgs, payload \in Payloads : MqttMessage(m, payload)
    \/ \E m \in Msgs : MqttInsert(m)
    \/ \E m \in Msgs : MqttGetUserEmail(m)
    \/ \E m \in Msgs : MqttSend(m)
    \/ \E m \in Msgs : MqttUpdate(m)

SpecMqtt == InitMqtt /\ [][NextMqtt]_vars

\* The timer of scheduled fires. Nothing is assumed of the handlers in
\* flight: the code neither awaits nor cancels them, so whether they go on
\* once scheduled has resolved is left open.
SpecMqttFair == InitMqtt /\ [][NextMqtt]_vars /\ WF_vars(MqttTimer)

\* ------------------------------------- one invocation over a backlog

\* The store already holds a backlog of n UNSENT rows, oldest first.
Backlog(o, n) ==
    [k \in 1..n |-> NewRow(k, Feed(o, n)[k][1], Feed(o, n)[k][2], "d1", "leak detected")]

\* The positions of AlertKinds a backlog may start from: a full batch from
\* any of them covers 10 kinds, the four together every kind.
BacklogOffsets == {0, 4, 8, 12}

InitBatch ==
    /\ deployed = "worker"
    /\ \E o \in BacklogOffsets, n \in 0..MaxBacklog : alert_log = Backlog(o, n)
    /\ upstream = << >>
    /\ user_homes = InitUserHomes
    /\ run = [r \in Runs |-> IdleRun]
    /\ calls = [r \in Runs |-> << >>]
    /\ logAtFetch = [r \in Runs |-> << >>]
    /\ faults = 0
    /\ handler = [m \in Msgs |-> IdleHandler]
    /\ mqttCalls = [m \in Msgs |-> << >>]
    /\ job = IdleJob

NextBatch ==
    \/ Invoke(1)
    \/ Fetch(1)
    \/ GetUser(1)
    \/ HomeEmail(1)
    \/ Send(1)
    \/ Update(1)

SpecBatch == InitBatch /\ [][NextBatch]_vars

\* ------------------- one invocation over a table with handled rows

\* The positions of the table whose rows earlier invocations have marked SENT.
SentPatterns == {{}, {1}, {2}, {1, 3}}

\* A backlog of n UNSENT rows among which the rows at the positions of
\* `sent` are SENT already.
Handled(n, sent) ==
    LET rows == Backlog(0, n + Cardinality(sent))
    IN  [k \in 1..Len(rows) |->
            IF k \in sent THEN [rows[k] EXCEPT !.sent_status = SENT] ELSE rows[k]]

InitBacklog ==
    /\ deployed = "worker"
    /\ \E n \in 0..MaxBacklog, sent \in SentPatterns : alert_log = Handled(n, sent)
    /\ upstream = << >>
    /\ user_homes = InitUserHomes
    /\ run = [r \in Runs |-> IdleRun]
    /\ calls = [r \in Runs |-> << >>]
    /\ logAtFetch = [r \in Runs |-> << >>]
    /\ faults = 0
    /\ handler = [m \in Msgs |-> IdleHandler]
    /\ mqttCalls = [m \in Msgs |-> << >>]
    /\ job = IdleJob

SpecBacklog == InitBacklog /\ [][NextBatch]_vars

\* ------------------------------- the scheduler invoking again and again

\* Kinds of alert for which no recipient is ever found: no override for the
\* home and no primary email for the user.
StuckKinds == << << NULL, "u9" >>, << "h2", "u2" >>, << "h3", NULL >>, << NULL, "u2" >> >>

\* Kinds of alert with a recipient: by override and identity, by identity
\* alone, by override alone.
GoodKinds == { << "h1", "u1" >>, << NULL, "u1" >>, << "h1", "u9" >> }

\* A table of n UNSENT alerts without a recipient followed by one younger
\* UNSENT alert of kind `good`.
Starved(n, good) ==
    [k \in 1..(n + 1) |->
        IF k <= n
        THEN NewRow(k, StuckKinds[((k - 1) % Len(StuckKinds)) + 1][1],
                    StuckKinds[((k - 1) % Len(StuckKinds)) + 1][2], "d1", "leak detected")
        ELSE NewRow(k, good[1], good[2], "d1", "leak detected")]

\* One external call may still fail; every later one succeeds.
InitLive ==
    /\ deployed = "worker"
    /\ \E n \in 0..(MaxBacklog - 1), good \in GoodKinds : alert_log = Starved(n, good)
    /\ upstream = << >>
    /\ user_homes = InitUserHomes
    /\ run = [r \in Runs |-> IdleRun]
    /\ calls = [r \in Runs |-> << >>]
    /\ logAtFetch = [r \in Runs |-> << >>]
    /\ faults = MaxFaults - 1
    /\ handler = [m \in Msgs |-> IdleHandler]
    /\ mqttCalls = [m \in Msgs |-> << >>]
    /\ job = IdleJob

NextLive ==
    \/ Invoke(1)
    \/ Reinvoke(1)
    \/ Fetch(1)
    \/ GetUser(1)
    \/ HomeEmail(1)
    \/ Send(1)
    \/ Update(1)

\* The scheduler keeps firing and every awaited call settles.
SpecLive == InitLive /\ [][NextLive]_vars /\ WF_vars(NextLive)

\* ------------------------- one request or scheduled event, any env

InitEntry ==
    /\ deployed = "worker"
    /\ \E o \in 0..(Len(AlertKinds) - 1), n \in 0..MaxAlerts : alert_log = Backlog(o, n)
    /\ upstream = << >>
    /\ user_homes = InitUserHomes
    /\ run = [r \in Runs |-> IdleRun]
    /\ calls = [r \in Runs |-> << >>]
    /\ logAtFetch = [r \in Runs |-> << >>]
    /\ faults = 0
    /\ handler = [m \in Msgs |-> IdleHandler]
    /\ mqttCalls = [m \in Msgs |-> << >>]
    /\ job = IdleJob

NextEntry ==
    \/ \E method \in {"GET", "POST", "PUT"}, env \in Envs, body \in PostBodies :
            FetchHandler(1, method, env, body)
    \/ \E env \in Envs : ScheduledEvent(1, env)
    \/ Fetch(1)
    \/ GetUser(1)
    \/ HomeEmail(1)
    \/ Send(1)
    \/ Update(1)

SpecEntry == InitEntry /\ [][NextEntry]_vars

\* ------------------------------------------------------------ properties

\* The positions of the calls of a sequence cs with operation op on alert a.
CallsOn(cs, op, a) == {k \in 1..Len(cs) : cs[k].op = op /\ cs[k].alert = a}

\* cs holds a call with operation op on alert a.
Called(cs, op, a) == \E k \in 1..Len(cs) : cs[k].op = op /\ cs[k].alert = a

\* The ids of the rows of a table whose sent_status is st.
IdsWith(log, st) == {log[k].id : k \in {j \in 1..Len(log) : log[j].sent_status = st}}

\* The ids of the alerts invocation r fetched.
BatchIds(r) == {run[r].alerts[p].id : p \in 1..Len(run[r].alerts)}

\* Invocation r's select on alert_log has resolved without an error.
Fetched(r) == calls[r] # << >> /\ calls[r][1].ok

\* In cs, a successful update of alert a is preceded by a successful send
\* for the same alert.
SentThenMarked(cs, a) ==
    \E j \in CallsOn(cs, "update", a) :
        /\ cs[j].ok
        /\ \E k \in CallsOn(cs, "send", a) : k < j /\ cs[k].ok

\* C1: every alert that is SENT was marked by an invocation (or an MQTT
\* handler) that had, strictly before its mark-sent mutation, dispatched the
\* email of that same alert successfully.
C1_SentOnlyAfterDispatch ==
    \A a \in IdsWith(alert_log, SENT) :
        \/ \E r \in Runs : SentThenMarked(calls[r], a)
        \/ \E m \in Msgs : SentThenMarked(mqttCalls[m], a)

\* An alert is SENT after another one's dispatch had failed in the same batch.
C1_Witness ==
    /\ deployed = "worker"
    /\ \E r \in Runs :
        /\ \E a \in IdsWith(alert_log, SENT) : SentThenMarked(calls[r], a)
        /\ \E k \in 1..Len(calls[r]) : calls[r][k].op = "send" /\ ~calls[r][k].ok

\* C2: every result processAlertBatch returns, the batch-level error return
\* included, satisfies successful + failed <= processed.
C2_CountsWithinProcessed ==
    \A r \in Runs :
        run[r].result # << >> =>
            run[r].result[1].successful + run[r].result[1].failed
                <= run[r].result[1].processed

\* A full batch of 10 has returned with successes and failures mixed.
C2_Witness ==
    /\ run[1].result # << >>
    /\ run[1].result[1].processed = BatchLimit
    /\ run[1].result[1].successful > 0
    /\ run[1].result[1].failed > 1

\* C3: no step changes a SENT row back to UNSENT (nor removes a row, nor
\* gives it another id): sent_status only ever goes from UNSENT to SENT.
C3_SentStatusMonotonic ==
    [][ /\ Len(alert_log') >= Len(alert_log)
        /\ \A k \in 1..Len(alert_log) :
            /\ alert_log'[k].id = alert_log[k].id
            /\ alert_log[k].sent_status = SENT => alert_log'[k].sent_status = SENT
            /\ alert_log'[k].sent_status \in {UNSENT, SENT} ]_vars

\* An overlapping invocation is about to mark a row that is already SENT,
\* after one of its own updates has failed.
C3_Witness ==
    \E r \in Runs :
        /\ run[r].pc = "update"
        /\ run[r].alerts[run[r].i].id \in IdsWith(alert_log, SENT)
        /\ \E k \in 1..Len(calls[r]) : calls[r][k].op = "update" /\ ~calls[r][k].ok

\* C4: a row that was SENT when an invocation's select ran is not in that
\* invocation's batch and gets no email from that invocation.
C4_SentNeverReselected ==
    \A r \in Runs :
        \A a \in IdsWith(logAtFetch[r], SENT) :
            /\ a \notin BatchIds(r)
            /\ ~Called(calls[r], "send", a)

\* A second invocation, started after the first one returned, has emailed
\* the alert the first one left UNSENT and none of those it marked SENT.
C4_Witness ==
    \E r \in Runs, q \in Runs :
        /\ r # q
        /\ run[q].pc = "done" /\ run[q].result # << >> /\ run[q].result[1].successful > 0
        /\ IdsWith(logAtFetch[r], SENT) # {}
        /\ run[r].pc = "done"
        /\ \E k \in 1..Len(calls[r]) : calls[r][k].op = "send"

\* C5: when no row is UNSENT as the select runs, the invocation returns
\* processed = successful = failed = 0 without an error, and the select is
\* the only call it ever issues: no identity lookup, no home lookup, no
\* email, no status mutation.
C5_EmptyBatchIsNoOp ==
    \A r \in Runs :
        (Fetched(r) /\ IdsWith(logAtFetch[r], UNSENT) = {}) =>
            /\ run[r].pc = "done"
            /\ run[r].result = BatchResult(0, 0, 0, NULL)
            /\ Len(calls[r]) = 1

\* An invocation has found only SENT rows and returned.
C5_Witness ==
    \E r \in Runs :
        /\ Fetched(r)
        /\ logAtFetch[r] # << >>
        /\ IdsWith(logAtFetch[r], UNSENT) = {}
        /\ run[r].pc = "done"

\* The override email the user_homes relation holds for home h (NULL when
\* h is absent, has no row, or has an empty email).
StoreOverride(h) ==
    LET emails == {user_homes[k].email : k \in {j \in 1..Len(user_homes) :
                        user_homes[j].home_id = h /\ Truthy(user_homes[j].email)}}
    IN  IF emails = {} THEN NULL ELSE CHOOSE e \in emails : TRUE

\* The identity provider's primary email of user u (NULL when u is absent
\* or unknown, or when no address carries the primary id).
PrimaryEmail(u) ==
    IF u \notin DOMAIN ClerkUsers THEN NULL
    ELSE LET user == ClerkUsers[u]
             primary == {k \in 1..Len(user.emailAddresses) :
                            user.emailAddresses[k].id = user.primaryEmailAddressId}
         IN  IF primary = {} THEN NULL
             ELSE user.emailAddresses[CHOOSE k \in primary : TRUE].emailAddress

\* Invocation r has chosen (or failed to choose) the recipient of the alert
\* at position p of its batch.
Decided(r, p) ==
    \/ run[r].pc = "done"
    \/ run[r].i > p
    \/ run[r].i = p /\ run[r].pc \in {"send", "update"}

\* Invocation r has finished the loop iteration of position p.
Completed(r, p) == run[r].pc = "done" \/ run[r].i > p

\* Invocation r has issued resend.emails.send for alert a with `to: e`.
DispatchedTo(r, a, e) ==
    \/ \E k \in CallsOn(calls[r], "send", a) : calls[r][k].arg = e
    \/ /\ run[r].pc = "send"
       /\ run[r].alerts[run[r].i].id = a
       /\ run[r].recipientEmail = e

\* A lookup of invocation r for alert a resolved without an error.
LookupOk(r, op, a) ==
    \E k \in 1..Len(calls[r]) :
        calls[r][k].op = op /\ calls[r][k].alert = a /\ calls[r][k].ok

\* The positions of invocation r's batch.
Positions(r) == 1..Len(run[r].alerts)

C7_IdentityFallback ==
    \A r \in Runs : \A p \in Positions(r) :
        LET alert == run[r].alerts[p] IN
        (/\ Decided(r, p)
         /\ ~Truthy(StoreOverride(alert.home_id))
         /\ LookupOk(r, "getUser", alert.id)
         /\ Truthy(PrimaryEmail(alert.user_id))) =>
            /\ DispatchedTo(r, alert.id, PrimaryEmail(alert.user_id))
            /\ \A k \in CallsOn(calls[r], "send", alert.id) :
                calls[r][k].arg = PrimaryEmail(alert.user_id)

\* An alert of a home whose row has an empty email was sent to the user's
\* primary email.
C7_Witness ==
    \E r \in Runs : \E p \in Positions(r) :
        LET alert == run[r].alerts[p] IN
        /\ alert.home_id = "h2"
        /\ LookupOk(r, "select_home", alert.id)
        /\ \E k \in CallsOn(calls[r], "send", alert.id) :
            calls[r][k].ok /\ calls[r][k].arg = PrimaryEmail(alert.user_id)

\* The lookups of invocation r produced no address for the alert at p.
NoRecipientFound(r, p) ==
    LET alert == run[r].alerts[p] IN
    /\ Decided(r, p)
    /\ \/ ~Truthy(StoreOverride(alert.home_id))
       \/ ~LookupOk(r, "select_home", alert.id)
    /\ \/ ~Truthy(PrimaryEmail(alert.user_id))
       \/ ~LookupOk(r, "getUser", alert.id)

\* The completed positions of r's batch whose alert r did not mark SENT.
NotMarked(r) ==
    {p \in Positions(r) :
        /\ Completed(r, p)
        /\ ~LookupOk(r, "update", run[r].alerts[p].id)}

\* C8: an alert for which neither an override email nor an identity email
\* is found gets no email and no status mutation from the invocation and is
\* counted failed (failed counts exactly the completed alerts the invocation
\* did not mark); a row for which the store and the directory hold neither
\* address is UNSENT in every state.
C8_NoRecipientFails ==
    /\ \A r \in Runs :
        /\ run[r].failedCount = Cardinality(NotMarked(r))
        /\ \A p \in Positions(r) :
            NoRecipientFound(r, p) =>
                /\ ~Called(calls[r], "send", run[r].alerts[p].id)
                /\ ~Called(calls[r], "update", run[r].alerts[p].id)
                /\ p \in NotMarked(r)
    /\ \A k \in 1..Len(alert_log) :
        (/\ ~Truthy(StoreOverride(alert_log[k].home_id))
         /\ ~Truthy(PrimaryEmail(alert_log[k].user_id))) =>
            alert_log[k].sent_status = UNSENT

\* An invocation has returned having found no recipient for one alert (no
\* override row, identity lookup answered 404) and marked another one SENT.
C8_Witness ==
    \E r \in Runs :
        /\ run[r].pc = "done"
        /\ run[r].result # << >> /\ run[r].result[1].successful = 1
        /\ \E p \in Positions(r) :
            /\ NoRecipientFound(r, p)
            /\ run[r].alerts[p].home_id = "h3"
            /\ run[r].alerts[p].user_id = "u9"

\* C9: an invocation that fetched a batch returns only after the loop has
\* attempted every alert of the batch, whatever failed on the way: it ends
\* at the last position without a batch-level error, and every alert with a
\* user_id had its identity lookup and every alert with a home_id its
\* override lookup.
C9_EveryAlertAttempted ==
    \A r \in Runs :
        (run[r].pc = "done" /\ Fetched(r) /\ IdsWith(logAtFetch[r], UNSENT) # {}) =>
            /\ Len(run[r].alerts) > 0
            /\ run[r].i = Len(run[r].alerts)
            /\ run[r].result[1].error = NULL
            /\ run[r].result[1].processed = Len(run[r].alerts)
            /\ \A p \in Positions(r) :
                LET alert == run[r].alerts[p] IN
                /\ alert.user_id # NULL => Called(calls[r], "getUser", alert.id)
                /\ Truthy(alert.home_id) => Called(calls[r], "select_home", alert.id)

\* A batch has returned in which a dispatch failed, a later mark-sent
\* failed, and a still later alert was marked SENT.
C9_Witness ==
    /\ run[1].pc = "done"
    /\ \E j, k, l \in 1..Len(calls[1]) :
        /\ j < k /\ k < l
        /\ calls[1][j].op = "send" /\ ~calls[1][j].ok
        /\ calls[1][k].op = "update" /\ ~calls[1][k].ok
        /\ calls[1][l].op = "update" /\ calls[1][l].ok

\* The last call invocation r has issued in the next state is new and is a
\* rejected send.
SendThrows(r) ==
    /\ Len(calls'[r]) = Len(calls[r]) + 1
    /\ calls'[r][Len(calls'[r])].op = "send"
    /\ ~calls'[r][Len(calls'[r])].ok

\* C10: a step in which the dispatch throws increments failed by one, leaves
\* successful and the table unchanged, and moves to the next alert (or
\* returns after the last one); the invocation never issues a mark-sent
\* mutation for that alert, which stays UNSENT.
C10_DispatchFailure ==
    /\ [][\A r \in Runs : SendThrows(r) =>
            /\ run'[r].failedCount = run[r].failedCount + 1
            /\ run'[r].successfulCount = run[r].successfulCount
            /\ alert_log' = alert_log
            /\ IF run[r].i < Len(run[r].alerts)
               THEN run'[r].pc = "getUser" /\ run'[r].i = run[r].i + 1
               ELSE run'[r].pc = "done"
                    /\ run'[r].result[1].failed = run[r].failedCount + 1]_vars
    /\ [](\A r \in Runs : \A k \in 1..Len(calls[r]) :
            (calls[r][k].op = "send" /\ ~calls[r][k].ok) =>
                /\ ~Called(calls[r], "update", calls[r][k].alert)
                /\ calls[r][k].alert \in IdsWith(alert_log, UNSENT))

\* A dispatch has thrown and the next alert of the batch was then marked SENT.
C10_Witness ==
    \E j, k \in 1..Len(calls[1]) :
        /\ j < k
        /\ calls[1][j].op = "send" /\ ~calls[1][j].ok
        /\ calls[1][k].op = "update" /\ calls[1][k].ok
        /\ calls[1][k].alert = calls[1][j].alert + 1

\* The last call invocation r has issued in the next state is new and is a
\* failed update of sent_status.
UpdateThrows(r) ==
    /\ Len(calls'[r]) = Len(calls[r]) + 1
    /\ calls'[r][Len(calls'[r])].op = "update"
    /\ ~calls'[r][Len(calls'[r])].ok

\* C11: a step in which the mark-sent mutation fails comes after a
\* successful dispatch of the same alert, increments failed by one, leaves
\* successful and the table unchanged, and moves to the next alert (or
\* returns without a batch-level error after the last one); the invocation
\* never marks that alert SENT.
C11_MarkSentFailure ==
    /\ [][\A r \in Runs : UpdateThrows(r) =>
            /\ LookupOk(r, "send", run[r].alerts[run[r].i].id)
            /\ run'[r].failedCount = run[r].failedCount + 1
            /\ run'[r].successfulCount = run[r].successfulCount
            /\ alert_log' = alert_log
            /\ IF run[r].i < Len(run[r].alerts)
               THEN run'[r].pc = "getUser" /\ run'[r].i = run[r].i + 1
               ELSE /\ run'[r].pc = "done"
                    /\ run'[r].result[1].error = NULL
                    /\ run'[r].result[1].failed = run[r].failedCount + 1]_vars
    /\ [](\A r \in Runs : \A k \in 1..Len(calls[r]) :
            (calls[r][k].op = "update" /\ ~calls[r][k].ok) =>
                ~LookupOk(r, "update", calls[r][k].alert))

\* An alert was emailed by one invocation whose mark-sent mutation failed,
\* was still UNSENT when a later invocation fetched, and was emailed again.
C11_Witness ==
    \E r \in Runs, q \in Runs :
        /\ r # q
        /\ \E k \in 1..Len(calls[r]) :
            /\ calls[r][k].op = "update" /\ ~calls[r][k].ok
            /\ LookupOk(r, "send", calls[r][k].alert)
            /\ calls[r][k].alert \in IdsWith(logAtFetch[q], UNSENT)
            /\ LookupOk(q, "send", calls[r][k].alert)

\* C12: when the select on alert_log fails, the invocation has returned
\* processed = successful = failed = 0 with the fetch error's message, and
\* the select is the only call it ever issues.
C12_FetchErrorEndsInvocation ==
    \A r \in Runs :
        (calls[r] # << >> /\ ~calls[r][1].ok) =>
            /\ calls[r][1].op = "select_alerts"
            /\ run[r].pc = "done"
            /\ run[r].result = BatchResult(0, 0, 0, "fetch failed")
            /\ Len(calls[r]) = 1
            /\ run[r].alerts = << >>

\* The select failed over a backlog of more than one batch.
C12_Witness ==
    /\ Len(alert_log) > BatchLimit
    /\ calls[1] # << >> /\ ~calls[1][1].ok
    /\ run[1].pc = "done"

\* The identity lookup of invocation r for alert a was issued and failed.
IdentityFailed(r, a) ==
    \E k \in 1..Len(calls[r]) :
        calls[r][k].op = "getUser" /\ calls[r][k].alert = a /\ ~calls[r][k].ok

\* C13: after a failed identity lookup the resolver holds no identity email
\* and no display name, the override lookup of an alert with a home_id is
\* still issued, an override that lookup finds is the address (the only one)
\* the alert is dispatched to, and the invocation returns at the end of its
\* batch without a batch-level error.
C13_IdentityFailureSwallowed ==
    \A r \in Runs : \A p \in Positions(r) :
        LET alert == run[r].alerts[p] IN
        IdentityFailed(r, alert.id) =>
            /\ (run[r].i = p /\ run[r].pc \in {"homeEmail", "send", "update"}) =>
                    run[r].clerkUserDetails = NoDetails
            /\ (Decided(r, p) /\ Truthy(alert.home_id)) =>
                    Called(calls[r], "select_home", alert.id)
            /\ (/\ Decided(r, p)
                /\ LookupOk(r, "select_home", alert.id)
                /\ Truthy(StoreOverride(alert.home_id))) =>
                    DispatchedTo(r, alert.id, StoreOverride(alert.home_id))
            /\ \A k \in CallsOn(calls[r], "send", alert.id) :
                    calls[r][k].arg = StoreOverride(alert.home_id)
            /\ run[r].pc = "done" =>
                    /\ run[r].i = Len(run[r].alerts)
                    /\ run[r].result[1].error = NULL

\* An alert whose user the provider answered 404 for and another whose
\* lookup hit a provider error were both sent to their home's override and
\* marked SENT.
C13_Witness ==
    \E p, q \in Positions(1) :
        /\ run[1].alerts[p].user_id = "u9"
        /\ run[1].alerts[q].user_id \in DOMAIN ClerkUsers
        /\ \A x \in {p, q} :
            /\ IdentityFailed(1, run[1].alerts[x].id)
            /\ LookupOk(1, "send", run[1].alerts[x].id)
            /\ LookupOk(1, "update", run[1].alerts[x].id)

\* The rows of a table whose sent_status is UNSENT.
UnsentRows(log) == {log[k] : k \in {j \in 1..Len(log) : log[j].sent_status = UNSENT}}

\* The created_at of the row of a table with id a.
CreatedAt(log, a) == (CHOOSE row \in {log[k] : k \in 1..Len(log)} : row.id = a).created_at

\* C14: the batch of an invocation whose select resolved holds at most 10
\* alerts, all UNSENT when the select ran, in ascending created_at order,
\* none newer than an UNSENT row left out (and none is left out while the
\* batch has room); the invocation issues at most 10 dispatches and at most
\* 10 status mutations.
C14_OldestTenUnsent ==
    \A r \in Runs :
        Fetched(r) =>
            LET unsent == UnsentRows(logAtFetch[r])
                alerts == run[r].alerts
            IN  /\ Len(alerts) <= BatchLimit
                /\ Len(alerts) = IF Cardinality(unsent) <= BatchLimit
                                 THEN Cardinality(unsent) ELSE BatchLimit
                /\ BatchIds(r) \subseteq {row.id : row \in unsent}
                /\ \A p, q \in Positions(r) :
                    p < q => CreatedAt(logAtFetch[r], alerts[p].id)
                                < CreatedAt(logAtFetch[r], alerts[q].id)
                /\ \A row \in unsent :
                    row.id \notin BatchIds(r) =>
                        \A p \in Positions(r) :
                            CreatedAt(logAtFetch[r], alerts[p].id) < row.created_at
                /\ Cardinality({k \in 1..Len(calls[r]) : calls[r][k].op = "send"})
                        <= BatchLimit
                /\ Cardinality({k \in 1..Len(calls[r]) : calls[r][k].op = "update"})
                        <= BatchLimit

\* An invocation has returned from a batch of 10 taken from a table that
\* held 11 UNSENT rows and SENT rows older than some of them, and has
\* dispatched and marked the last alert of the batch.
C14_Witness ==
    /\ run[1].pc = "done"
    /\ Len(run[1].alerts) = BatchLimit
    /\ Cardinality(UnsentRows(logAtFetch[1])) > BatchLimit
    /\ IdsWith(logAtFetch[1], SENT) # {}
    /\ LookupOk(1, "update", run[1].alerts[BatchLimit].id)

\* A JSON body that carries home_id, device_id and message.
HasRequiredFields(body) ==
    body.json /\ Truthy(body.home_id) /\ Truthy(body.device_id) /\ Truthy(body.message)

\* Invocation r was started by a POST to the fetch handler.
IsPost(r) == run[r].request.trigger = "fetch" /\ run[r].request.method = "POST"

\* The positions of the calls of invocation r with operation op.
CallsOf(r, op) == {k \in 1..Len(calls[r]) : calls[r][k].op = op}

\* C15: a POST whose body carries home_id, device_id and message, handled
\* with every credential present and no failing store or email call, has
\* inserted exactly one alert, sent exactly one email, marked that alert
\* SENT, and is answered 200 {success: true, alert_id: <the inserted id>}.
C15_PostInsertsAndSends ==
    \A r \in Runs :
        (/\ IsPost(r)
         /\ run[r].request.env = Credentials
         /\ HasRequiredFields(run[r].request.body)
         /\ run[r].pc = "done"
         /\ \A k \in 1..Len(calls[r]) : calls[r][k].ok \/ calls[r][k].op = "getUser") =>
            /\ Cardinality(CallsOf(r, "insert")) = 1
            /\ Cardinality(CallsOf(r, "send")) = 1
            /\ HttpResponse(r) # << >>
            /\ HttpResponse(r)[1].status = 200
            /\ "json" \in DOMAIN HttpResponse(r)[1]
            /\ DOMAIN HttpResponse(r)[1].json = {"success", "alert_id"}
            /\ HttpResponse(r)[1].json.success
            /\ HttpResponse(r)[1].json.alert_id \in IdsWith(alert_log, SENT)
            /\ \A k \in CallsOf(r, "insert") :
                    calls[r][k].alert = HttpResponse(r)[1].json.alert_id

\* C16: a POST whose JSON body lacks home_id, device_id or message causes
\* no store operation and no email dispatch, and is answered 400
\* {success: false, error: "Invalid message payload: missing required fields"}.
C16_PostMissingFieldRejected ==
    \A r \in Runs :
        (/\ IsPost(r)
         /\ run[r].request.env = Credentials
         /\ run[r].request.body.json
         /\ ~HasRequiredFields(run[r].request.body)) =>
            /\ calls[r] = << >>
            /\ run[r].pc = "done" =>
                    HttpResponse(r) = JsonResponse(400,
                        [success |-> FALSE,
                         error |-> "Invalid message payload: missing required fields"])

\* The error texts that name a credential.
NamesCredential(c) ==
    IF c = "SUPABASE_URL" THEN {"Supabase URL missing.", "supabaseUrl is required."}
    ELSE IF c = "SUPABASE_KEY" THEN {"Supabase key missing.", "supabaseKey is required."}
    ELSE IF c = "CLERK_SECRET_KEY" THEN {"Clerk secret key missing."}
    ELSE {"Resend API key missing.", "Missing API key."}

\* Invocation r has ended with an error that names a credential env lacks:
\* a 500 response, or an exception out of the handler.
ConfigErrorProduced(r) ==
    \E c \in Credentials \ run[r].request.env :
        \/ \E error \in NamesCredential(c) : HttpResponse(r) = ConfigError(error)
        \/ run[r].thrown \in NamesCredential(c)

\* C20: an invocation started by a POST or by the scheduled event while a
\* credential is absent issues no store call, identity call or email
\* dispatch, and ends with a configuration error naming the missing item.
C20_MissingCredentialFailsFast ==
    \A r \in Runs :
        (/\ IsPost(r) \/ run[r].request.trigger = "scheduled"
         /\ run[r].request.env # Credentials) =>
            /\ calls[r] = << >>
            /\ run[r].pc = "done" => ConfigErrorProduced(r)

\* C17: handleMqttMessage never rejects; a payload that is not JSON or
\* lacks home_id, device_id or message ends the handler without any store
\* operation or email dispatch; and the client is only ever ended by an
\* error event or by the timer, so the subscription goes on after any message.
C17_BadPayloadDropped ==
    /\ \A m \in Msgs :
        /\ handler[m].pc # "rejected"
        /\ (handler[m].pc # "idle" /\ ~HasRequiredFields(handler[m].payload)) =>
                /\ handler[m].pc = "done"
                /\ mqttCalls[m] = << >>
    /\ job.ended => (job.error # NULL \/ job.pc = "resolved")

\* After a payload that is not JSON was dropped, a later message was
\* inserted, emailed and marked SENT.
C17_Witness ==
    \E m \in Msgs, n \in Msgs :
        /\ m < n
        /\ handler[m].pc = "done"
        /\ ~handler[m].payload.json
        /\ \E k \in 1..Len(mqttCalls[n]) : mqttCalls[n][k].op = "update" /\ mqttCalls[n][k].ok

\* The store operations (every call but the email) handler m has issued.
StoreOps(m) ==
    LET store == SelectSeq(mqttCalls[m], LAMBDA call : call.op # "send")
    IN  [k \in 1..Len(store) |-> store[k].op]

\* The user_id the user_homes relation holds for home h.
LinkedUser(h) ==
    (CHOOSE row \in {user_homes[k] : k \in 1..Len(user_homes)} : row.home_id = h).user_id

\* C18: handleMqttMessage on a valid message of a home with an email, all
\* calls succeeding, has issued exactly the store operations user lookup,
\* insert, update in this order, has inserted the alert under the looked-up
\* user_id, has sent exactly one email, to the looked-up address, and
\* returns the id of the inserted alert.
C18_LookupInsertUpdate ==
    \A m \in Msgs :
        (/\ handler[m].pc = "done"
         /\ HasRequiredFields(handler[m].payload)
         /\ Truthy(StoreOverride(handler[m].payload.home_id))
         /\ \A k \in 1..Len(mqttCalls[m]) : mqttCalls[m][k].ok) =>
            /\ StoreOps(m) = << "select_home", "insert", "update" >>
            /\ \A k \in 1..Len(alert_log) :
                alert_log[k].id = handler[m].alertResult =>
                    alert_log[k].user_id = LinkedUser(handler[m].payload.home_id)
            /\ Cardinality({k \in 1..Len(mqttCalls[m]) : mqttCalls[m][k].op = "send"}) = 1
            /\ \A k \in 1..Len(mqttCalls[m]) :
                mqttCalls[m][k].op = "send" =>
                    mqttCalls[m][k].arg = StoreOverride(handler[m].payload.home_id)
            /\ HandlerResult(m) = << handler[m].alertResult >>

\* C19: once the MQTT client has emitted an error event during a scheduled
\* run, the client is closed and the scheduled handler does not resolve: its
\* promise rejects with that error.
C19_ErrorRejectsScheduled ==
    job.error # NULL =>
        /\ job.ended
        /\ job.endCalls >= 1
        /\ job.pc # "resolved"

\* C21: the fetch handler answers GET with 200 "Notification Worker
\* Running" and a method other than GET and POST with 405 "Method Not
\* Allowed", both without any call; a POST whose Content-Type is not
\* application/json causes no store operation and no email dispatch and is
\* answered 415.
C21_MethodAndContentType ==
    \A r \in Runs :
        run[r].request.trigger = "fetch" =>
            /\ run[r].request.method = "GET" =>
                    /\ calls[r] = << >>
                    /\ HttpResponse(r) = TextResponse(200, "Notification Worker Running")
            /\ run[r].request.method \notin {"GET", "POST"} =>
                    /\ calls[r] = << >>
                    /\ HttpResponse(r) = TextResponse(405, "Method Not Allowed")
            /\ (/\ run[r].request.method = "POST"
                /\ run[r].request.env = Credentials
                /\ run[r].request.body.contentType # "application/json") =>
                    /\ calls[r] = << >>
                    /\ run[r].pc = "done" =>
                            /\ HttpResponse(r) # << >>
                            /\ HttpResponse(r)[1].status = 415

\* The store clients the invocations have constructed so far.
StoreClients == {run[r].supabase : r \in Runs} \ {0}

\* C22: over the invocations of one process the store client is constructed
\* at most once: all invocations that have a client share it.
C22_StoreClientConstructedOnce == Cardinality(StoreClients) <= 1

\* The position of alert a in the batch of invocation r.
PosOf(r, a) == CHOOSE p \in Positions(r) : run[r].alerts[p].id = a

\* C23: the batch is in ascending created_at order; the calls of an
\* invocation after its select never go back to an earlier position of the
\* batch nor ahead of the position being processed; and every call a step
\* issues is for the alert at the position the invocation is processing, so
\* the next alert's calls start only when this one has ended.
C23_StrictlySequential ==
    /\ [](\A r \in Runs :
            /\ \A p \in Positions(r) :
                p > 1 => CreatedAt(logAtFetch[r], run[r].alerts[p - 1].id)
                            < CreatedAt(logAtFetch[r], run[r].alerts[p].id)
            /\ \A k \in 2..Len(calls[r]) :
                /\ PosOf(r, calls[r][k].alert) <= run[r].i
                /\ k > 2 => PosOf(r, calls[r][k - 1].alert) <= PosOf(r, calls[r][k].alert))
    /\ [][\A r \in Runs :
            (calls'[r] # calls[r] /\ calls[r] # << >>) =>
                /\ Len(calls'[r]) = Len(calls[r]) + 1
                /\ SubSeq(calls'[r], 1, Len(calls[r])) = calls[r]
                /\ calls'[r][Len(calls'[r])].alert = run[r].alerts[run[r].i].id
                /\ run'[r].i \in {run[r].i, run[r].i + 1}]_vars

\* A full batch has been processed to its last position, with a failed
\* dispatch on the way.
C23_Witness ==
    /\ run[1].pc = "done"
    /\ run[1].i = BatchLimit
    /\ \E k \in 1..Len(calls[1]) : calls[1][k].op = "send" /\ ~calls[1][k].ok
    /\ calls[1][Len(calls[1])].alert = run[1].alerts[BatchLimit].id

\* C24: an invocation issues at most one dispatch and at most one mark-sent
\* mutation per fetched alert, whatever failed; once the alert's iteration
\* has ended, it has issued exactly one dispatch if a recipient was found
\* and none otherwise.
C24_OneDispatchAttempt ==
    \A r \in Runs : \A p \in Positions(r) :
        LET a == run[r].alerts[p].id IN
        /\ Cardinality(CallsOn(calls[r], "send", a)) <= 1
        /\ Cardinality(CallsOn(calls[r], "update", a)) <= 1
        /\ Completed(r, p) =>
                (Called(calls[r], "send", a) <=> ~NoRecipientFound(r, p))

\* An invocation has returned after a failed dispatch, a failed mark-sent
\* and an alert without a recipient, none of them tried again.
C24_Witness ==
    /\ run[1].pc = "done"
    /\ \E k \in 1..Len(calls[1]) : calls[1][k].op = "send" /\ ~calls[1][k].ok
    /\ \E k \in 1..Len(calls[1]) : calls[1][k].op = "update" /\ ~calls[1][k].ok
    /\ \E p \in Positions(1) : NoRecipientFound(1, p)

\* C29: every result returned without a batch-level error has successful +
\* failed = processed, successful equal to the number of alerts the
\* invocation marked SENT and failed equal to the number of fetched alerts
\* it did not mark.
C29_CountsAddUp ==
    \A r \in Runs :
        (run[r].result # << >> /\ run[r].result[1].error = NULL) =>
            LET res == run[r].result[1]
                marked == {p \in Positions(r) : LookupOk(r, "update", run[r].alerts[p].id)}
            IN  /\ res.successful + res.failed = res.processed
                /\ res.processed = Len(run[r].alerts)
                /\ res.successful = Cardinality(marked)
                /\ res.failed = Cardinality(Positions(r) \ marked)
                /\ \A p \in marked : run[r].alerts[p].id \in IdsWith(alert_log, SENT)

\* A full batch has returned with alerts marked, a dispatch failed, a
\* mark-sent failed and an alert without a recipient.
C29_Witness ==
    /\ run[1].result # << >>
    /\ run[1].result[1].processed = BatchLimit
    /\ run[1].result[1].successful > 1
    /\ \E k \in 1..Len(calls[1]) : calls[1][k].op = "send" /\ ~calls[1][k].ok
    /\ \E k \in 1..Len(calls[1]) : calls[1][k].op = "update" /\ ~calls[1][k].ok
    /\ run[1].result[1].failed > 2

\* The override lookup of invocation r for alert a returned an error.
HomeLookupFailed(r, a) ==
    \E k \in 1..Len(calls[r]) :
        calls[r][k].op = "select_home" /\ calls[r][k].alert = a /\ ~calls[r][k].ok

\* C30: after an override lookup that returned an error, an alert whose
\* identity lookup resolved with a primary email is dispatched to that
\* email and to no other address, and is SENT once that dispatch and its
\* mark-sent mutation have succeeded.
C30_OverrideLookupErrorFallsBack ==
    \A r \in Runs : \A p \in Positions(r) :
        LET alert == run[r].alerts[p] IN
        (/\ HomeLookupFailed(r, alert.id)
         /\ Decided(r, p)
         /\ LookupOk(r, "getUser", alert.id)
         /\ Truthy(PrimaryEmail(alert.user_id))) =>
            /\ DispatchedTo(r, alert.id, PrimaryEmail(alert.user_id))
            /\ \A k \in CallsOn(calls[r], "send", alert.id) :
                    calls[r][k].arg = PrimaryEmail(alert.user_id)
            /\ (LookupOk(r, "send", alert.id) /\ LookupOk(r, "update", alert.id)) =>
                    /\ alert.id \in IdsWith(alert_log, SENT)
                    /\ p \notin NotMarked(r)

\* An alert whose home has an override was, after the override lookup
\* failed, sent to the user's primary email and marked SENT.
C30_Witness ==
    \E p \in Positions(1) :
        LET alert == run[1].alerts[p] IN
        /\ Truthy(StoreOverride(alert.home_id))
        /\ HomeLookupFailed(1, alert.id)
        /\ \E k \in CallsOn(calls[1], "send", alert.id) :
            calls[1][k].ok /\ calls[1][k].arg = PrimaryEmail(alert.user_id)
        /\ alert.id \in IdsWith(alert_log, SENT)

\* C25: a step of processAlertBatch leaves user_homes as it is, keeps the
\* number and the order of the rows of alert_log, and changes a row only by
\* setting the sent_status of an alert of its own batch to SENT, every
\* other column as before.
C25_OnlyOwnStatusWritten ==
    [][/\ user_homes' = user_homes
       /\ Len(alert_log') = Len(alert_log)
       /\ \A k \in 1..Len(alert_log) :
            \/ alert_log'[k] = alert_log[k]
            \/ /\ alert_log'[k] = [alert_log[k] EXCEPT !.sent_status = SENT]
               /\ alert_log[k].id \in BatchIds(1)]_vars

\* An invocation has marked an alert of its batch SENT in a table that also
\* holds a row handled earlier and an UNSENT row beyond the batch.
C25_Witness ==
    /\ run[1].pc = "done"
    /\ \E k \in 1..Len(calls[1]) : calls[1][k].op = "update" /\ calls[1][k].ok
    /\ IdsWith(alert_log, SENT) \ BatchIds(1) # {}
    /\ IdsWith(alert_log, UNSENT) \ BatchIds(1) # {}

\* The send calls issued for alert a, over all invocations.
EmailsFor(a) ==
    UNION {{<<r, k>> : k \in CallsOn(calls[r], "send", a)} : r \in Runs}

\* The invocations whose select returned alert a, UNSENT at that time.
FetchedUnsent(a) ==
    {r \in Runs : a \in BatchIds(r) /\ a \in IdsWith(logAtFetch[r], UNSENT)}

\* C28: in every interleaving of invocations, the send calls issued for an
\* alert are at most as many as the invocations whose select returned it
\* while UNSENT, and the only change of a row's sent_status is from UNSENT
\* to SENT.
C28_EmailsBoundedByFetches ==
    /\ [](\A k \in 1..Len(alert_log) :
            Cardinality(EmailsFor(alert_log[k].id))
                <= Cardinality(FetchedUnsent(alert_log[k].id)))
    /\ [][\A k \in 1..Len(alert_log) :
            alert_log'[k].sent_status # alert_log[k].sent_status =>
                (alert_log[k].sent_status = UNSENT /\ alert_log'[k].sent_status = SENT)]_vars

\* Two overlapping invocations have both fetched the same UNSENT alert and
\* both emailed it; the alert is SENT.
C28_Witness ==
    \E k \in 1..Len(alert_log) :
        LET a == alert_log[k].id IN
        /\ alert_log[k].sent_status = SENT
        /\ FetchedUnsent(a) = Runs
        /\ \A r \in Runs : LookupOk(r, "send", a)

\* A recipient exists for the row: an override for its home or a primary
\* email for its user.
Resolvable(row) ==
    Truthy(StoreOverride(row.home_id)) \/ Truthy(PrimaryEmail(row.user_id))

\* The older rows that are UNSENT and have no recipient.
OlderStuck(k) ==
    {j \in 1..(k - 1) : alert_log[j].sent_status = UNSENT /\ ~Resolvable(alert_log[j])}

\* C26 as stated: under repeated invocation every alert with a recipient is
\* eventually SENT, however many older alerts stay UNSENT.
C26_EverySentRegardless ==
    \A k \in 1..MaxBacklog :
        []((k <= Len(alert_log) /\ Resolvable(alert_log[k]))
            => <>(k <= Len(alert_log) /\ alert_log[k].sent_status = SENT))

\* C26: under repeated invocation every alert with a recipient that has
\* fewer than BatchLimit older UNSENT alerts without a recipient is
\* eventually SENT.
C26_SentUnlessStarved ==
    \A k \in 1..MaxBacklog :
        []((/\ k <= Len(alert_log)
            /\ Resolvable(alert_log[k])
            /\ Cardinality(OlderStuck(k)) < BatchLimit)
            => <>(k <= Len(alert_log) /\ alert_log[k].sent_status = SENT))

\* The alert behind BatchLimit - 1 older alerts without a recipient has
\* been marked SENT, after an invocation in which a call failed.
C26_Witness ==
    /\ Len(alert_log) = BatchLimit
    /\ alert_log[BatchLimit].sent_status = SENT
    /\ Cardinality(OlderStuck(BatchLimit)) = BatchLimit - 1
    /\ faults = MaxFaults
    /\ run[1].pc = "fetch"

MqttCallsOf(m, op) == {k \in 1..Len(mqttCalls[m]) : mqttCalls[m][k].op = op}

\* The ids of the rows the inserts of handler m have created.
InsertedBy(m) ==
    {mqttCalls[m][k].alert : k \in {j \in MqttCallsOf(m, "insert") : mqttCalls[m][j].ok}}

\* C31: however the awaits of the handlers interleave, a handler issues at
\* most one insert, one email and one status update, and exactly one insert
\* once a valid message is past its insert; the rows of the table are the
\* rows the handlers inserted, no two handlers sharing one; a status update
\* targets the row its own handler inserted; and a valid message of a home
\* without a recipient email sends nothing and leaves its row UNSENT.
C31_HandlersDoNotInterfere ==
    /\ \A m \in Msgs :
        /\ Cardinality(MqttCallsOf(m, "insert")) <= 1
        /\ Cardinality(MqttCallsOf(m, "send")) <= 1
        /\ Cardinality(MqttCallsOf(m, "update")) <= 1
        /\ (HasRequiredFields(handler[m].payload) /\ handler[m].pc \notin {"idle", "insert"}) =>
                Cardinality(MqttCallsOf(m, "insert")) = 1
        /\ \A k \in MqttCallsOf(m, "update") : mqttCalls[m][k].alert \in InsertedBy(m)
        /\ \A n \in Msgs : n # m => InsertedBy(m) \cap InsertedBy(n) = {}
        /\ (/\ HasRequiredFields(handler[m].payload)
            /\ ~Truthy(StoreOverride(handler[m].payload.home_id))) =>
                /\ MqttCallsOf(m, "send") = {}
                /\ InsertedBy(m) \subseteq IdsWith(alert_log, UNSENT)
    /\ {alert_log[k].id : k \in 1..Len(alert_log)} = UNION {InsertedBy(m) : m \in Msgs}
    /\ Len(alert_log) = Cardinality(UNION {InsertedBy(m) : m \in Msgs})

\* The insert of the second message resolved before the insert of the
\* first: the second, of a home without a recipient email, holds row 1 and
\* left it UNSENT; the first holds row 2, emailed and marked SENT.
C31_Witness ==
    /\ handler[1].pc = "done"
    /\ handler[2].pc = "done"
    /\ InsertedBy(1) = {2}
    /\ InsertedBy(2) = {1}
    /\ \E k \in MqttCallsOf(1, "update") : mqttCalls[1][k].ok
    /\ ~Truthy(StoreOverride(handler[2].payload.home_id))
    /\ IdsWith(alert_log, SENT) = {2}

====
